---- MODULE Spec2Model ----
(***************************************************************************)
(* embed_asm.py: read one assembly file, embed it with a pretrained         *)
(* encoder, write the vector to embeddings/<base_name>_embedding.json.      *)
(*                                                                         *)
(* Text (paths, file contents, printed lines) is a sequence of strings: a   *)
(* path is a sequence of characters, a document a sequence of words, a     *)
(* JSON file a sequence of lexemes.  An input file holds its document by    *)
(* name (Text gives the words), so that a state stays small.  Floats are    *)
(* abstracted to integers modulo Modulus.  Python's 0-based tensors are     *)
(* functions on 0..n-1, Python lists are sequences.                         *)
(***************************************************************************)
EXTENDS Integers, Sequences, FiniteSets, TLC

\* ------------------------------------------------------------------ bounds

\* hidden dimensionality of the encoder (768 for microsoft/codebert-base)
HiddenSize == 3
\* how many words the longest documents have beyond max_length
Over == 2

\* ------------------------------------------------------- program constants

\* tokenizer(..., truncation=True, max_length=512)
max_length == 512
\* "microsoft/codebert-base"
MODEL_NAME == "microsoft/codebert-base"
\* output_dir = "embeddings"
output_dir == <<"e", "m", "b", "e", "d", "d", "i", "n", "g", "s">>
\* f"{base_name}_embedding.json"
SUFFIX == <<"_", "e", "m", "b", "e", "d", "d", "i", "n", "g", ".", "j", "s", "o", "n">>
USAGE == <<"Usage: python embed_asm.py <assembly_file>">>
SAVED == "Embedding saved to "
PROG == <<"e", "m", "b", "e", "d", "_", "a", "s", "m", ".", "p", "y">>

\* --------------------------------------------------------------- os.path

sep == "/"
extsep == "."

\* str.rfind: the last index (1-based) of character c in p, 0 when absent
rfind(p, c) ==
  LET hits == {i \in 1..Len(p) : p[i] = c}
  IN IF hits = {} THEN 0 ELSE CHOOSE i \in hits : \A j \in hits : j <= i

\* os.path.basename(p): what follows the last separator
basename(p) == SubSeq(p, rfind(p, sep) + 1, Len(p))

\* mutant: the root ends at the first dot of the file name, not the last
splitext_root_first_dot(p) ==
  LET sepIndex == rfind(p, sep)
      dots == {i \in (sepIndex + 1)..Len(p) :
                 p[i] = extsep /\ \E k \in (sepIndex + 1)..(i - 1) : p[k] # extsep}
  IN IF dots = {} THEN p
     ELSE SubSeq(p, 1, (CHOOSE i \in dots : \A j \in dots : i <= j) - 1)

\* os.path.splitext(p)[0]: p without its last extension; leading dots of the
\* file name do not start an extension
splitext_root(p) ==
  LET sepIndex == rfind(p, sep)
      dotIndex == rfind(p, extsep)
  IN IF /\ dotIndex > sepIndex
        /\ \E k \in (sepIndex + 1)..(dotIndex - 1) : p[k] # extsep
     THEN SubSeq(p, 1, dotIndex - 1)
     ELSE p

\* os.path.join(a, b) for a non-empty a
path_join(a, b) ==
  IF Len(b) > 0 /\ b[1] = sep THEN b
  ELSE IF a[Len(a)] = sep THEN a \o b
  ELSE a \o <<sep>> \o b

\* mutant: the extension is kept
BaseName_keep_ext(asm_file) == basename(asm_file)

\* base_name = os.path.splitext(os.path.basename(asm_file))[0]
BaseName(asm_file) == splitext_root(basename(asm_file))

\* output_path = os.path.join(output_dir, f"{base_name}_embedding.json")
OutputPath(asm_file) == path_join(output_dir, BaseName(asm_file) \o SUFFIX)

\* ------------------------------------------------------ tokenizer, encoder

\* the abstract floats are the integers modulo Modulus (a prime)
Modulus == 251

\* ids of the special tokens and of the words of the vocabulary
TokenIds == [bos |-> 0, pad |-> 1, eos |-> 2, unk |-> 3]

Vocab(w) ==
  CASE w = "mov" -> 10
    [] w = "eax," -> 11
    [] w = "1" -> 12
    [] w = "ret" -> 13
    [] OTHER -> TokenIds.unk

Take(s, n) == IF Len(s) <= n THEN s ELSE SubSeq(s, 1, n)

\* mutant: truncation=False
tokenizer_call_no_truncation(text, limit) ==
  LET ids == [i \in 1..Len(text) |-> Vocab(text[i])]
      row == <<TokenIds.bos>> \o ids \o <<TokenIds.eos>>
  IN [input_ids |-> [b \in {0} |-> [i \in 0..(Len(row) - 1) |-> row[i + 1]]],
      length |-> Len(row)]

\* tokenizer(text, return_tensors="pt", truncation=True, max_length=limit):
\* a batch of one sequence <s> w1 .. wk </s> of at most `limit` ids
tokenizer_call(text, limit) ==
  LET ids == [i \in 1..Len(text) |-> Vocab(text[i])]
      kept == Take(ids, limit - 2)
      row == <<TokenIds.bos>> \o kept \o <<TokenIds.eos>>
  IN [input_ids |-> [b \in {0} |-> [i \in 0..(Len(row) - 1) |-> row[i + 1]]],
      length |-> Len(row)]

\* a position-weighted checksum of ids[lo..hi-1], by halving
RECURSIVE Checksum(_, _, _)
Checksum(ids, lo, hi) ==
  IF hi <= lo THEN 0
  ELSE IF hi = lo + 1 THEN ((ids[lo] + 1) * ((lo % 7) + 1)) % Modulus
  ELSE LET mid == (lo + hi) \div 2
       IN (Checksum(ids, lo, mid) + Checksum(ids, mid, hi)) % Modulus

\* the encoder on one sequence of n ids: one hidden vector per position; every
\* position attends to the whole sequence
Encode(ids, n) ==
  LET c == Checksum(ids, 0, n)
  IN [i \in 0..(n - 1) |->
        [d \in 0..(HiddenSize - 1) |-> (c * (d + 1) + ids[i] * 5 + i * 3) % Modulus]]

\* model(**inputs): the hidden states of each sequence of the batch
model_call(inputs) ==
  [last_hidden_state |->
     [b \in DOMAIN inputs.input_ids |-> Encode(inputs.input_ids[b], inputs.length)]]

\* tensor.numpy().tolist()
tolist(t) == [k \in 1..Cardinality(DOMAIN t) |-> t[k - 1]]

RECURSIVE SumHidden(_, _, _, _)
SumHidden(seq, d, lo, hi) ==
  IF hi <= lo THEN 0
  ELSE IF hi = lo + 1 THEN seq[lo][d]
  ELSE LET mid == (lo + hi) \div 2
       IN SumHidden(seq, d, lo, mid) + SumHidden(seq, d, mid, hi)

\* mutant: mean pooling over the positions of the first sequence
Select_mean(outputs) ==
  LET seq == outputs.last_hidden_state[0]
      n == Cardinality(DOMAIN seq)
  IN [d \in DOMAIN seq[0] |-> SumHidden(seq, d, 0, n) \div n]

\* outputs.last_hidden_state[0][0]
Select(outputs) == outputs.last_hidden_state[0][0]

\* a document of n words whose k-th word (if any) is "ret", the others "mov"
Doc(n, k) == [i \in 1..n |-> IF i = k THEN "ret" ELSE "mov"]
Example == <<"mov", "eax,", "1", "ret">>

\* the documents of the input files, by name
Text(name) ==
  CASE name = "example" -> Example
    [] name = "fit" -> Doc(max_length - 2, 1)
    [] name = "cap" -> Doc(max_length, max_length)
    [] name = "cap+1" -> Doc(max_length + 1, 0)
    [] name = "over_tail" -> Doc(max_length + Over, max_length + Over)
    [] name = "over_head" -> Doc(max_length + Over, max_length - 2)
    [] name = "empty" -> <<>>

DocNames == {"example", "fit", "cap", "cap+1", "over_tail", "over_head", "empty"}

get_embedding(text) ==
  LET inputs == tokenizer_call(text, max_length)
      outputs == model_call(inputs)
  IN tolist(Select(outputs))

\* ------------------------------------------------------------- json.dump

RECURSIVE JoinItems(_)
JoinItems(xs) ==
  IF Len(xs) = 0 THEN <<>>
  ELSE IF Len(xs) = 1 THEN <<ToString(xs[1])>>
  ELSE <<ToString(xs[1]), ", ">> \o JoinItems(Tail(xs))

\* mutant: the list is wrapped in an object
JsonDump_wrapped(xs) ==
  <<"{", "embedding", ": ", "[">> \o JoinItems(xs) \o <<"]", "}">>

\* the text json.dump writes for a list of numbers
JsonDump(xs) == <<"[">> \o JoinItems(xs) \o <<"]">>

\* ------------------------------------------------------------ file system

Absent == [kind |-> "absent"]
Dir == [kind |-> "dir"]
File(data, readable) == [kind |-> "file", readable |-> readable, data |-> data]

P_loop_asm == <<"a", "/", "l", "o", "o", "p", ".", "a", "s", "m">>
P_loop_s == <<"b", "/", "l", "o", "o", "p", ".", "s">>
P_mk == <<"v", "1", ".", "2", "/", "m", "k">>
P_targz == <<"x", ".", "t", "a", "r", ".", "g", "z">>
P_rc == <<".", "r", "c">>
P_locked == <<"l", "o", "c", "k", "e", "d", ".", "s">>
P_missing == <<"m", "i", "s", "s", "i", "n", "g", ".", "a", "s", "m">>

\* the paths given on the command line
Paths == {P_loop_asm, P_loop_s, P_mk, P_targz, P_rc, P_locked, P_missing}

OutPaths == {OutputPath(p) : p \in Paths}
AllPaths == Paths \cup {output_dir} \cup OutPaths

\* what the working directory holds before the first run: the input files
InputLayouts ==
  { [p \in Paths |->
       CASE p = P_loop_asm -> File("over_tail", TRUE)
         [] p = P_loop_s -> File("example", TRUE)
         [] p = P_locked -> File("example", FALSE)
         [] OTHER -> Absent],
    [p \in Paths |->
       CASE p = P_mk -> File("fit", TRUE)
         [] p = P_targz -> File("cap", TRUE)
         [] p = P_locked -> File("example", FALSE)
         [] OTHER -> Absent],
    [p \in Paths |->
       CASE p = P_rc -> File("over_head", TRUE)
         [] p = P_loop_s -> File("cap+1", TRUE)
         [] OTHER -> Absent] }

\* an output file left by an earlier version of the tool
Stale == <<"[", "0", "]">>

\* ------------------------------------------------------------------ state

VARIABLES
  fs,           \* the file system: path -> node
  pc,           \* the statement of main() the process is at; "idle" before
                \* the first run, "exited" after a run
  argv,         \* sys.argv
  asm_file,     \* main's locals; <<>> or "" while unset
  code,
  tokenizer,
  model,
  embedding,
  output_path,
  stdout,       \* the lines printed by the current run
  exit_status,  \* -1 while running
  error,        \* the exception that ended the run, "" if none
  trace,        \* the statements the current run has completed, in order
  fs0,          \* the file system when the current run started
  prev_ok,      \* the input of the run before the current one if it exited
                \* with status 0, <<>> otherwise
  last_ok       \* per output path: the input of the run that last wrote it
                \* completely, <<>> if none or if it was reopened since

vars == <<fs, pc, argv, asm_file, code, tokenizer, model, embedding,
          output_path, stdout, exit_status, error, trace, fs0, prev_ok, last_ok>>

Init ==
  /\ \E layout \in InputLayouts, emb \in {"absent", "stale", "file"} :
       fs = [p \in AllPaths |->
               IF p \in Paths THEN layout[p]
               ELSE IF p = output_dir
                 THEN CASE emb = "absent" -> Absent
                        [] emb = "file" -> File(<<>>, TRUE)
                        [] OTHER -> Dir
               ELSE IF emb = "stale" /\ p = OutputPath(P_loop_s)
                 THEN File(Stale, TRUE)
               ELSE Absent]
  /\ pc = "idle"
  /\ argv = <<>>
  /\ asm_file = <<>>
  /\ code = ""
  /\ tokenizer = ""
  /\ model = ""
  /\ embedding = <<>>
  /\ output_path = <<>>
  /\ stdout = <<>>
  /\ exit_status = -1
  /\ error = ""
  /\ trace = <<>>
  /\ fs0 = fs
  /\ prev_ok = <<>>
  /\ last_ok = [o \in OutPaths |-> <<>>]

\* the command lines tried
ArgLists == {<<>>} \cup {<<p>> : p \in Paths} \cup {<<P_loop_asm, P_loop_s>>}

\* mutant: the confirmation is printed before the vector is written
Successor_print_first(label) ==
  CASE label = "main" -> "read"
    [] label = "read" -> "load_tokenizer"
    [] label = "load_tokenizer" -> "load_model"
    [] label = "load_model" -> "embed"
    [] label = "embed" -> "makedirs"
    [] label = "makedirs" -> "open"
    [] label = "open" -> "print"
    [] label = "print" -> "dump"
    [] label = "dump" -> "return"

\* mutant: the output directory is made before the model is loaded
Successor_makedirs_first(label) ==
  CASE label = "main" -> "read"
    [] label = "read" -> "makedirs"
    [] label = "makedirs" -> "load_tokenizer"
    [] label = "load_tokenizer" -> "load_model"
    [] label = "load_model" -> "embed"
    [] label = "embed" -> "open"
    [] label = "open" -> "dump"
    [] label = "dump" -> "print"
    [] label = "print" -> "return"

\* the statements of main() in program order
Successor(label) ==
  CASE label = "main" -> "read"
    [] label = "read" -> "load_tokenizer"
    [] label = "load_tokenizer" -> "load_model"
    [] label = "load_model" -> "embed"
    [] label = "embed" -> "makedirs"
    [] label = "makedirs" -> "open"
    [] label = "open" -> "dump"
    [] label = "dump" -> "print"
    [] label = "print" -> "return"

\* the statement at pc completes and control passes to the next one
Step ==
  /\ pc' = Successor(pc)
  /\ trace' = Append(trace, pc)
  /\ UNCHANGED <<exit_status, error>>

\* an exception nothing catches: traceback, exit status 1
Raise(exc) ==
  /\ pc' = "exited"
  /\ exit_status' = 1
  /\ error' = exc
  /\ UNCHANGED trace

\* the shell starts the program
Invoke ==
  /\ pc \in {"idle", "exited"}
  /\ \E args \in ArgLists : argv' = <<PROG>> \o args
  /\ pc' = "main"
  /\ prev_ok' = IF exit_status = 0 THEN asm_file ELSE <<>>
  /\ asm_file' = <<>>
  /\ code' = ""
  /\ tokenizer' = ""
  /\ model' = ""
  /\ embedding' = <<>>
  /\ output_path' = <<>>
  /\ stdout' = <<>>
  /\ exit_status' = -1
  /\ error' = ""
  /\ trace' = <<>>
  /\ fs0' = fs
  /\ UNCHANGED <<fs, last_ok>>

\* mutant: only a missing argument is refused
BadArgCount_missing_only(args) == Len(args) < 2

\* len(sys.argv) != 2
BadArgCount(args) == Len(args) # 2

\* if len(sys.argv) != 2: print usage; sys.exit(1)  /  asm_file = sys.argv[1]
CheckArgs ==
  /\ pc = "main"
  /\ IF BadArgCount(argv)
     THEN /\ stdout' = Append(stdout, USAGE)
          /\ Raise("SystemExit")
          /\ UNCHANGED asm_file
     ELSE /\ asm_file' = argv[2]
          /\ Step
          /\ UNCHANGED stdout
  /\ UNCHANGED <<fs, argv, code, tokenizer, model, embedding, output_path,
                 fs0, prev_ok, last_ok>>

\* mutant: a missing file reads as an empty one
open_r_missing_is_empty(path) ==
  CASE fs[path].kind = "absent" -> [ok |-> TRUE, data |-> "empty"]
    [] fs[path].kind = "dir" -> [ok |-> FALSE, exc |-> "IsADirectoryError"]
    [] ~fs[path].readable -> [ok |-> FALSE, exc |-> "PermissionError"]
    [] OTHER -> [ok |-> TRUE, data |-> fs[path].data]

\* open(path, "r") and f.read(): the content, or the exception raised
open_r(path) ==
  CASE fs[path].kind = "absent" -> [ok |-> FALSE, exc |-> "FileNotFoundError"]
    [] fs[path].kind = "dir" -> [ok |-> FALSE, exc |-> "IsADirectoryError"]
    [] ~fs[path].readable -> [ok |-> FALSE, exc |-> "PermissionError"]
    [] OTHER -> [ok |-> TRUE, data |-> fs[path].data]

\* with open(asm_file, "r") as f: code = f.read()
ReadFile ==
  /\ pc = "read"
  /\ LET r == open_r(asm_file)
     IN IF r.ok
        THEN code' = r.data /\ Step
        ELSE Raise(r.exc) /\ UNCHANGED code
  /\ UNCHANGED <<fs, argv, asm_file, tokenizer, model, embedding, output_path,
                 stdout, fs0, prev_ok, last_ok>>

\* tokenizer = AutoTokenizer.from_pretrained("microsoft/codebert-base")
LoadTokenizer ==
  /\ pc = "load_tokenizer"
  /\ \/ tokenizer' = MODEL_NAME /\ Step
     \/ Raise("OSError: tokenizer") /\ UNCHANGED tokenizer
  /\ UNCHANGED <<fs, argv, asm_file, code, model, embedding, output_path,
                 stdout, fs0, prev_ok, last_ok>>

\* model = AutoModel.from_pretrained("microsoft/codebert-base")
LoadModel ==
  /\ pc = "load_model"
  /\ \/ model' = MODEL_NAME /\ Step
     \/ Raise("OSError: model") /\ UNCHANGED model
  /\ UNCHANGED <<fs, argv, asm_file, code, tokenizer, embedding, output_path,
                 stdout, fs0, prev_ok, last_ok>>

\* embedding = get_embedding(code, model, tokenizer)
Embed ==
  /\ pc = "embed"
  /\ \/ embedding' = get_embedding(Text(code)) /\ Step
     \/ Raise("RuntimeError") /\ UNCHANGED embedding
  /\ UNCHANGED <<fs, argv, asm_file, code, tokenizer, model, output_path,
                 stdout, fs0, prev_ok, last_ok>>

\* os.makedirs(name, exist_ok=exist_ok)
makedirs(name, exist_ok) ==
  CASE fs[name].kind = "absent" ->
         \/ fs' = [fs EXCEPT ![name] = Dir] /\ Step
         \/ Raise("PermissionError") /\ UNCHANGED fs
    [] fs[name].kind = "dir" /\ exist_ok ->
         UNCHANGED fs /\ Step
    [] OTHER ->
         Raise("FileExistsError") /\ UNCHANGED fs

\* output_dir = "embeddings"; os.makedirs(output_dir, exist_ok=True)
MakeDirs ==
  /\ pc = "makedirs"
  /\ makedirs(output_dir, TRUE)
  /\ UNCHANGED <<argv, asm_file, code, tokenizer, model, embedding, output_path,
                 stdout, fs0, prev_ok, last_ok>>

\* mutant: mode "a", an existing file is kept and appended to
open_a(path) ==
  IF fs[path].kind = "file" THEN fs ELSE [fs EXCEPT ![path] = File(<<>>, TRUE)]

\* open(path, "w"): the file is created, or truncated when it exists
open_w(path) == [fs EXCEPT ![path] = File(<<>>, TRUE)]

\* base_name = ...; output_path = ...; with open(output_path, "w") as out_f
OpenOutput ==
  /\ pc = "open"
  /\ output_path' = OutputPath(asm_file)
  /\ \/ /\ fs' = open_w(output_path')
        /\ last_ok' = [last_ok EXCEPT ![output_path'] = <<>>]
        /\ Step
     \/ Raise("PermissionError") /\ UNCHANGED <<fs, last_ok>>
  /\ UNCHANGED <<argv, asm_file, code, tokenizer, model, embedding,
                 stdout, fs0, prev_ok>>

\* out_f.write of each of the first n lexemes of text
write(path, text, n) ==
  [fs EXCEPT ![path] = File(fs[path].data \o SubSeq(text, 1, n), TRUE)]

\* json.dump(embedding, out_f), then the with block closes out_f; a write that
\* fails leaves in the file what was written before it
Dump ==
  /\ pc = "dump"
  /\ LET text == JsonDump(embedding)
     IN \/ /\ fs' = write(output_path, text, Len(text))
           /\ last_ok' = [last_ok EXCEPT ![output_path] = asm_file]
           /\ Step
        \/ \E n \in 0..(Len(text) - 1) :
             /\ fs' = write(output_path, text, n)
             /\ Raise("OSError: write")
             /\ UNCHANGED last_ok
  /\ UNCHANGED <<argv, asm_file, code, tokenizer, model, embedding, output_path,
                 stdout, fs0, prev_ok>>

\* print(f"Embedding saved to {output_path}")
PrintSaved ==
  /\ pc = "print"
  /\ stdout' = Append(stdout, <<SAVED>> \o output_path)
  /\ Step
  /\ UNCHANGED <<fs, argv, asm_file, code, tokenizer, model, embedding,
                 output_path, fs0, prev_ok, last_ok>>

\* main() returns: the interpreter exits with status 0
Return ==
  /\ pc = "return"
  /\ pc' = "exited"
  /\ exit_status' = 0
  /\ trace' = Append(trace, pc)
  /\ UNCHANGED <<fs, argv, asm_file, code, tokenizer, model, embedding,
                 output_path, stdout, error, fs0, prev_ok, last_ok>>

Next ==
  \/ Invoke
  \/ CheckArgs
  \/ ReadFile
  \/ LoadTokenizer
  \/ LoadModel
  \/ Embed
  \/ MakeDirs
  \/ OpenOutput
  \/ Dump
  \/ PrintSaved
  \/ Return

Spec == Init /\ [][Next]_vars

\* ----------------------------------------------------------------- claims

Succeeded == pc = "exited" /\ exit_status = 0
Failed == pc = "exited" /\ exit_status # 0
Confirmed == \E k \in 1..Len(stdout) : stdout[k][1] = SAVED
FullTrace == <<"main", "read", "load_tokenizer", "load_model", "embed",
               "makedirs", "open", "dump", "print", "return">>

\* p = dir \o base \o ext with dir = p[1..i], base = p[i+1..j]: dir is empty or
\* ends with the last "/", ext is the last extension of the file name (a dot
\* that follows a character other than a dot, and what comes after it)
IsSplit(p, i, j) ==
  /\ i \in 0..Len(p) /\ j \in i..Len(p)
  /\ i = 0 \/ p[i] = "/"
  /\ \A k \in (i + 1)..Len(p) : p[k] # "/"
  /\ \/ /\ j = Len(p)
        /\ ~\E k, m \in (i + 1)..Len(p) : k < m /\ p[k] # "." /\ p[m] = "."
     \/ /\ j < Len(p)
        /\ p[j + 1] = "."
        /\ \A m \in (j + 2)..Len(p) : p[m] # "."
        /\ \E k \in (i + 1)..j : p[k] # "."

ExpectedOutputs(p) ==
  { <<"e", "m", "b", "e", "d", "d", "i", "n", "g", "s", "/">>
      \o SubSeq(p, i + 1, j)
      \o <<"_", "e", "m", "b", "e", "d", "d", "i", "n", "g", ".", "j", "s", "o", "n">> :
    <<i, j>> \in {x \in (0..Len(p)) \X (0..Len(p)) : IsSplit(p, x[1], x[2])} }

Changed == {p \in AllPaths : fs[p] # fs0[p]}

\* C1: a run on one argument naming a readable file that completes has written
\* exactly one file, embeddings/<base_name>_embedding.json, base_name being the
\* input path without its directory and last extension; no other file changes
C1_OneOutputFile ==
  /\ Len(argv) = 2 =>
       \A p \in Changed : p = output_dir \/ p \in ExpectedOutputs(argv[2])
  /\ Succeeded =>
       /\ fs0[argv[2]].kind = "file" /\ fs0[argv[2]].readable
       /\ ExpectedOutputs(argv[2]) = {output_path}
       /\ fs[output_path] = File(JsonDump(embedding), TRUE)
       /\ fs[output_dir] = Dir
       /\ \A p \in AllPaths \ {output_path, output_dir} : fs[p] = fs0[p]

C1_Witness ==
  /\ Succeeded
  /\ argv[2] = P_targz
  /\ fs0[output_path] = Absent
  /\ fs0[output_dir] = Absent

\* C2: with an argument count other than one the run prints the usage message
\* and exits with status 1 before it reads, loads or creates anything
C2_UsageExit ==
  (pc \notin {"idle", "main"} /\ Len(argv) # 2) =>
     /\ pc = "exited"
     /\ exit_status = 1
     /\ stdout = <<USAGE>>
     /\ trace = <<>>
     /\ code = "" /\ tokenizer = "" /\ model = "" /\ embedding = <<>>
     /\ fs = fs0

C2_Witness ==
  /\ pc = "exited"
  /\ Len(argv) = 3
  /\ stdout = <<USAGE>>
  /\ fs0[output_dir] = Absent

\* C3: a run whose one argument names a missing or unreadable file ends with
\* an access error and leaves the file system as it was
C3_MissingInput ==
  ( /\ pc \notin {"idle", "main", "read"}
    /\ Len(argv) = 2
    /\ \/ fs0[argv[2]].kind = "absent"
       \/ fs0[argv[2]].kind = "file" /\ ~fs0[argv[2]].readable ) =>
     /\ pc = "exited"
     /\ exit_status # 0
     /\ error = IF fs0[argv[2]].kind = "absent"
                THEN "FileNotFoundError" ELSE "PermissionError"
     /\ tokenizer = "" /\ model = "" /\ embedding = <<>>
     /\ stdout = <<>>
     /\ fs = fs0

C3_Witness ==
  /\ pc = "exited"
  /\ error = "FileNotFoundError"
  /\ argv[2] = P_missing
  /\ fs[output_dir] = Absent

\* the embeddings of the first n words of each document, n the cap counted
\* without and with the start token
CapReadings == {max_length - 1, max_length}
EmbeddingOfPrefix ==
  [d \in DocNames |-> [n \in CapReadings |-> get_embedding(Take(Text(d), n))]]

\* C4: a document of more than 512 tokens gets the embedding of its first 512
\* tokens; tokens beyond the cap do not affect the result
C4_Truncation ==
  embedding # <<>> =>
    \A n \in CapReadings :
      Len(Text(code)) > n => embedding = EmbeddingOfPrefix[code][n]

C4_Witness ==
  /\ embedding # <<>>
  /\ code = "over_tail"
  /\ Len(Text(code)) > max_length
  /\ Text(code)[Len(Text(code))] # Text(code)[1]

\* C5: a second run in succession on the same input writes the same array over
\* the first run's file and leaves the file system as the first run left it;
\* an existing embeddings directory is not a failure
C5_Idempotent ==
  /\ (Succeeded /\ prev_ok = asm_file) =>
       /\ fs = fs0
       /\ fs0[output_path] = File(JsonDump(embedding), TRUE)
  /\ error = "FileExistsError" => fs0[output_dir].kind = "file"

C5_Witness ==
  /\ Succeeded
  /\ prev_ok = asm_file
  /\ asm_file = P_loop_asm
  /\ fs0[output_dir] = Dir
  /\ fs0[output_path].kind = "file"

NumberLexemes == {ToString(v) : v \in 0..(Modulus - 1)}

\* text is the JSON of a flat array of n numbers
IsFlatNumberArray(text, n) ==
  /\ Len(text) = 2 * n + 1
  /\ text[1] = "["
  /\ text[Len(text)] = "]"
  /\ \A k \in 1..n : text[2 * k] \in NumberLexemes
  /\ \A k \in 1..(n - 1) : text[2 * k + 1] = ", "

\* C6: every completely written output file is one flat array of numbers whose
\* length is the hidden dimensionality, whatever the input's length
C6_FlatArray ==
  /\ Succeeded => last_ok[output_path] = asm_file
  /\ \A o \in OutPaths :
       last_ok[o] # <<>> =>
         fs[o].kind = "file" /\ IsFlatNumberArray(fs[o].data, HiddenSize)

C6_Witness ==
  /\ last_ok[OutputPath(P_mk)] = P_mk
  /\ last_ok[OutputPath(P_targz)] = P_targz
  /\ Len(Text(fs[P_mk].data)) < max_length
  /\ Len(Text(fs[P_targz].data)) = max_length
  /\ pc = "exited"

\* C7: a run that passes the argument check and does not fail does each step
\* once, in the order read, inference, write, print, exit 0; the confirmation
\* is printed only after the file is complete and never in a run that fails
C7_StepOrder ==
  /\ Succeeded => trace = FullTrace /\ stdout = <<(<<SAVED>> \o output_path)>>
  /\ pc # "idle" => trace = SubSeq(FullTrace, 1, Len(trace))
  /\ Confirmed =>
       /\ fs[output_path] = File(JsonDump(embedding), TRUE)
       /\ SubSeq(trace, 1, 8) = SubSeq(FullTrace, 1, 8)
       /\ embedding # <<>> /\ code # ""
  /\ Failed => ~Confirmed

C7_Witness ==
  /\ Succeeded
  /\ Confirmed
  /\ trace = FullTrace
  /\ asm_file = P_mk

ModelErrors == {"OSError: tokenizer", "OSError: model", "RuntimeError"}

\* C8: a failure of loading, tokenization or the forward pass after the input
\* was read ends the run with a non-zero status and the file system unchanged
C8_ModelFailure ==
  error \in ModelErrors =>
     /\ pc = "exited"
     /\ exit_status # 0
     /\ code = fs0[asm_file].data
     /\ trace = SubSeq(FullTrace, 1, Len(trace))
     /\ stdout = <<>>
     /\ fs = fs0

C8_Witness ==
  /\ error = "RuntimeError"
  /\ pc = "exited"
  /\ fs0[output_dir] = Absent
  /\ fs0[asm_file].kind = "file"

\* the hidden states seq with the one at position i changed
PerturbSeq(seq, i) ==
  [j \in DOMAIN seq |->
     IF j = i THEN [d \in DOMAIN seq[j] |-> (seq[j][d] + 1) % Modulus] ELSE seq[j]]

\* the encoder output with the hidden state at position i of each sequence
\* changed
Perturb(outputs, i) ==
  [last_hidden_state |->
     [b \in DOMAIN outputs.last_hidden_state |->
        PerturbSeq(outputs.last_hidden_state[b], i)]]

\* per document: the encoder's output, the positions perturbed, and the
\* embeddings selected from the perturbed outputs
OutputsOf(d) == model_call(tokenizer_call(Text(d), max_length))
PerturbedAt(d) ==
  LET n == tokenizer_call(Text(d), max_length).length
  IN {1, n \div 2, n - 1}
HiddenAtFirst ==
  [d \in DocNames |->
     [k \in 1..HiddenSize |-> OutputsOf(d).last_hidden_state[0][0][k - 1]]]
PerturbedEmbeddings ==
  [d \in DocNames |->
     {tolist(Select(Perturb(OutputsOf(d), i))) : i \in PerturbedAt(d)}]
PerturbChanges ==
  \A d \in DocNames : \A i \in PerturbedAt(d) :
    Perturb(OutputsOf(d), i).last_hidden_state[0][i]
      # OutputsOf(d).last_hidden_state[0][i]

\* C9: the embedding is the hidden state at position 0 of sequence 0 as a
\* list; changing the hidden state at any other position does not change it
C9_FirstPosition ==
  embedding # <<>> =>
    /\ embedding = HiddenAtFirst[code]
    /\ PerturbChanges
    /\ PerturbedEmbeddings[code] = {embedding}

C9_Witness ==
  /\ pc = "makedirs"
  /\ code = "cap"
  /\ embedding = HiddenAtFirst["cap"]
  /\ Len(embedding) = HiddenSize

EmbeddingOf == [d \in DocNames |-> get_embedding(Text(d))]

ExpectedOutputOf == [p \in Paths |-> ExpectedOutputs(p)]
ComputedOutputOf == [p \in Paths |-> OutputPath(p)]

\* C10: inputs that differ only in directory or extension share one output
\* path, and an output file holds the embedding of the last run that wrote it
C10_LastWriterWins ==
  /\ \A p, q \in Paths :
       ExpectedOutputOf[p] \cap ExpectedOutputOf[q] # {} =>
         ComputedOutputOf[p] = ComputedOutputOf[q]
  /\ \A o \in OutPaths :
       last_ok[o] # <<>> =>
         /\ OutputPath(last_ok[o]) = o
         /\ fs[o] = File(JsonDump(EmbeddingOf[fs[last_ok[o]].data]), TRUE)

C10_Witness ==
  /\ Succeeded
  /\ asm_file = P_loop_s
  /\ prev_ok = P_loop_asm
  /\ fs0[output_path].kind = "file"
  /\ fs0[output_path] # fs[output_path]
  /\ last_ok[output_path] = P_loop_s

====
